---- MODULE Spec2Model ----
(***************************************************************************)
(* Cross-asset dashboard: the merge pipeline of data_fetching.py           *)
(* (fetch_fred_series, fetch_cross_asset_data) and the Dash callback       *)
(* update_dashboard of app.py / app_v3.py.                                 *)
(*                                                                         *)
(* A frame (pandas DataFrame) is a record                                  *)
(*   [index   : sequence of dates,                                         *)
(*    columns : sequence of column names,                                  *)
(*    values  : sequence (one per column, positional) of sequences (one    *)
(*              cell per row)]                                             *)
(* A cell is a positive integer price or NaN.                              *)
(***************************************************************************)
EXTENDS Integers, Sequences, FiniteSets, TLC

VARIABLES
    pc,            \* position of the running call
    app,           \* which program runs: "app", "app_v3", or "lib" (a direct caller)
    n_intervals,   \* dcc.Interval n_intervals
    date_key,      \* dcc.Dropdown value
    n_vol,         \* btn-vol n_clicks
    n_dd,          \* btn-dd n_clicks
    n_corr,        \* btn-corr n_clicks
    last_clicked,  \* history: the risk button clicked most recently ("none" before any click)
    inputs,        \* history: the Input values of the update_dashboard call that returned last
    args,          \* arguments fetch_cross_asset_data was called with
    yf_request,    \* the request handed to yf.download
    df_yahoo,      \* the frame yf.download returned
    fred_frames,   \* the list fred_frames
    merged,        \* df as concatenated (data_fetching.py line 79), before sort_index
    df,            \* the panel (fetch_cross_asset_data's result / update_dashboard's df)
    calls,         \* the calls of update_dashboard in flight (their arguments), oldest request first
    risk_chart,    \* Output risk-chart (normalized-chart in app_v3)
    heatmap,       \* Output correlation-heatmap
    status,        \* Output last-update
    metrics        \* history: the metrics computed by the call that returned last

vars == <<pc, app, n_intervals, date_key, n_vol, n_dd, n_corr, last_clicked, inputs,
          args, yf_request, df_yahoo, fred_frames, merged, df, calls, risk_chart, heatmap,
          status, metrics>>

----------------------------------------------------------------------------
(* Bounds *)

MaxDate == 3
MaxClicks == 2
MaxTicks == 1
MaxLen == 4
MaxRows == 32
MaxInFlight == 2

Dates == 1..MaxDate

----------------------------------------------------------------------------
(* Cells and small helpers *)

NaN == 0 - 1

Range(s) == {s[i] : i \in 1..Len(s)}

Min(S) == CHOOSE x \in S : \A y \in S : x <= y

Max(S) == CHOOSE x \in S : \A y \in S : x >= y

Pos(s, x) == CHOOSE i \in 1..Len(s) : s[i] = x

RECURSIVE SortedSeq(_)
SortedSeq(S) == IF S = {} THEN <<>>
                ELSE LET m == Min(S) IN <<m>> \o SortedSeq(S \ {m})

RECURSIVE Flatten(_)
Flatten(ss) == IF ss = <<>> THEN <<>> ELSE Head(ss) \o Flatten(Tail(ss))

----------------------------------------------------------------------------
(* The instrument catalog *)

FredKeys == <<"3M_Yield", "1Y_Yield", "2Y_Yield", "10Y_Yield", "30Y_Yield">>

FRED_TICKERS == [l \in Range(FredKeys) |->
                    CASE l = "3M_Yield"  -> "DGS3MO"
                      [] l = "1Y_Yield"  -> "DGS1"
                      [] l = "2Y_Yield"  -> "DGS2"
                      [] l = "10Y_Yield" -> "DGS10"
                      [] l = "30Y_Yield" -> "DGS30"]

YahooKeys == <<"Nasdaq", "Gold", "BTC", "ETH", "SOL", "XRP">>

YAHOO_TICKERS == [l \in Range(YahooKeys) |->
                    CASE l = "Nasdaq" -> "^IXIC"
                      [] l = "Gold"   -> "GC=F"
                      [] l = "BTC"    -> "BTC-USD"
                      [] l = "ETH"    -> "ETH-USD"
                      [] l = "SOL"    -> "SOL-USD"
                      [] l = "XRP"    -> "XRP-USD"]

YahooValues == [i \in 1..Len(YahooKeys) |-> YAHOO_TICKERS[YahooKeys[i]]]

DATE_OPTIONS == [k \in {"180d", "1y"} |->
                    IF k = "180d" THEN <<"180d", "1d">> ELSE <<"1y", "1d">>]

cryptos == <<"BTC", "ETH", "SOL", "XRP">>

----------------------------------------------------------------------------
(* Frames *)

NoFrame == [index |-> <<>>, columns |-> <<>>, values |-> <<>>]

NRows(f) == Len(f.index)

NCols(f) == Len(f.columns)

HasCol(f, name) == name \in Range(f.columns)

Col(f, name) == f.values[Pos(f.columns, name)]

SetColumns(f, names) == [f EXCEPT !.columns = names]

Empty(f) == NRows(f) = 0 \/ NCols(f) = 0

FfillColLimit1(c) == [i \in 1..Len(c) |->
                        IF c[i] # NaN THEN c[i]
                        ELSE IF i > 1 THEN c[i - 1] ELSE NaN]

FfillCol(c) == [i \in 1..Len(c) |->
                  LET obs == {j \in 1..i : c[j] # NaN}
                  IN  IF obs = {} THEN NaN ELSE c[Max(obs)]]

BfillColNone(c) == c

BfillCol(c) == [i \in 1..Len(c) |->
                  LET obs == {j \in i..Len(c) : c[j] # NaN}
                  IN  IF obs = {} THEN NaN ELSE c[Min(obs)]]

Ffill(f) == [f EXCEPT !.values = [j \in 1..NCols(f) |-> FfillCol(f.values[j])]]

Bfill(f) == [f EXCEPT !.values = [j \in 1..NCols(f) |-> BfillCol(f.values[j])]]

SortIndexNone(f) == f

SortIndex(f) ==
    LET idx == SortedSeq(Range(f.index))
    IN  [index   |-> idx,
         columns |-> f.columns,
         values  |-> [j \in 1..NCols(f) |->
                        [i \in 1..Len(idx) |-> f.values[j][Pos(f.index, idx[i])]]]]

\* pd.concat(axis=1): the union of the indexes, every column reindexed on it
\* (NaN where its frame has no such date).  Every frame here has a
\* DatetimeIndex, and the order of the union depends on the pandas installed
\* (the repository pins none): before 3.0 concat sorts the union of
\* DatetimeIndexes whatever its sort argument (sorts = TRUE); from 3.0 on it
\* keeps the dates in order of first appearance (sorts = FALSE).
AppendNew(acc, idx) == acc \o SelectSeq(idx, LAMBDA d : d \notin Range(acc))

RECURSIVE FirstAppearance(_)
FirstAppearance(frames) ==
    IF frames = <<>> THEN <<>>
    ELSE AppendNew(FirstAppearance(SubSeq(frames, 1, Len(frames) - 1)),
                   frames[Len(frames)].index)

UnionIndex(frames, sorts) ==
    IF sorts THEN SortedSeq(Range(FirstAppearance(frames)))
    ELSE FirstAppearance(frames)

Reindex(f, idx) ==
    [j \in 1..NCols(f) |->
        [i \in 1..Len(idx) |->
            IF idx[i] \in Range(f.index) THEN f.values[j][Pos(f.index, idx[i])]
            ELSE NaN]]

ConcatAxis1(frames, sorts) ==
    LET idx == UnionIndex(frames, sorts)
    IN  [index   |-> idx,
         columns |-> Flatten([k \in 1..Len(frames) |-> frames[k].columns]),
         values  |-> Flatten([k \in 1..Len(frames) |-> Reindex(frames[k], idx)])]

Dropna(f) ==
    LET keep == {i \in 1..NRows(f) : \A j \in 1..NCols(f) : f.values[j][i] # NaN}
        rows == SortedSeq(keep)
    IN  [index   |-> [i \in 1..Len(rows) |-> f.index[rows[i]]],
         columns |-> f.columns,
         values  |-> [j \in 1..NCols(f) |->
                        [i \in 1..Len(rows) |-> f.values[j][rows[i]]]]]

Select(f, names) ==
    [index   |-> f.index,
     columns |-> names,
     values  |-> [j \in 1..Len(names) |-> Col(f, names[j])]]

----------------------------------------------------------------------------
(* The two external sources.  A response is what the source answers; the   *)
(* model draws it from the sets below.                                     *)

\* Dates on which the exchanges and the macro source have no observation
\* (crypto trades every day).
Holidays == {2}

CryptoTickers == {YAHOO_TICKERS[cryptos[i]] : i \in 1..Len(cryptos)}

\* Column orders the market-data source may answer in: the order of the
\* request, or its tickers sorted.
Alphabetical == <<"BTC-USD", "ETH-USD", "GC=F", "SOL-USD", "XRP-USD", "^IXIC">>

ColumnOrders == {YahooValues, Alphabetical}

\* The closing price the source holds for a ticker at a date (distinct per
\* ticker and date), and its opening price (never equal to a close).
Quote(ticker, d) == 10 * Pos(YahooValues, ticker) + d

OpenQuote(ticker, d) == Quote(ticker, d) + 5

YahooField(Y, order, field) ==
    LET idx == SortedSeq(Y)
        price(t, d) == IF field = "Open" THEN OpenQuote(t, d) ELSE Quote(t, d)
    IN  [index   |-> idx,
         columns |-> order,
         values  |-> [j \in 1..Len(order) |->
                        [i \in 1..Len(idx) |->
                            IF order[j] \notin CryptoTickers /\ idx[i] \in Holidays
                            THEN NaN ELSE price(order[j], idx[i])]]]

\* yf.download for several tickers: one frame per field (a two-level column
\* index), rows for the dates Y in ascending order.
YahooResponse(Y, order) ==
    [Open  |-> YahooField(Y, order, "Open"),
     Close |-> YahooField(Y, order, "Close")]

YahooResponses == {YahooResponse(Y, order) : Y \in SUBSET Dates, order \in ColumnOrders}

Yield(series, d) ==
    100 + 10 * Pos(FredKeys, CHOOSE l \in Range(FredKeys) : FRED_TICKERS[l] = series) + d

\* A macro series answers with no rows, with every date (holidays as NaN),
\* with the latest date only, or with every date but the latest.
FredKinds == {"none", "full", "latest", "lagged"}

FredResponse(series, kind) ==
    LET idx == CASE kind = "none"   -> <<>>
                 [] kind = "full"   -> SortedSeq(Dates)
                 [] kind = "latest" -> <<MaxDate>>
                 [] kind = "lagged" -> SortedSeq(Dates \ {MaxDate})
    IN  [index   |-> idx,
         columns |-> <<series>>,
         values  |-> << [i \in 1..Len(idx) |->
                           IF idx[i] \in Holidays THEN NaN ELSE Yield(series, idx[i])] >>]

----------------------------------------------------------------------------
(* data_fetching.py *)

fetch_fred_series(resp) == Bfill(Ffill(resp))

ForceIntervalOnly1y(period, interval) == IF period = "1y" THEN "1d" ELSE interval

ForceInterval(period, interval) ==
    IF period \in {"180d", "1y"} THEN "1d" ELSE interval

YfRequest(period, interval) ==
    [tickers  |-> YahooValues,
     period   |-> period,
     interval |-> ForceInterval(period, interval)]

CloseOf(resp) == SetColumns(resp.Close, YahooKeys)

FredFrame(label, resp) == SetColumns(fetch_fred_series(resp), <<label>>)

\* lines 76 and 79: the two concatenations
ConcatAll(frames, close, sorts) ==
    LET df_fred_all == ConcatAxis1(frames, sorts)
    IN  ConcatAxis1(<<df_fred_all, close>>, sorts)

\* line 80: df.sort_index().ffill().bfill()
SortAndFill(m) == Bfill(Ffill(SortIndex(m)))

MergeAll(frames, close, sorts) == SortAndFill(ConcatAll(frames, close, sorts))

fetch_cross_asset_data(yresp, kinds, sorts) ==
    MergeAll([k \in 1..Len(FredKeys) |->
                 FredFrame(FredKeys[k], FredResponse(FRED_TICKERS[FredKeys[k]], kinds[k]))],
             CloseOf(yresp), sorts)

----------------------------------------------------------------------------
(* Output figures *)

NoFig == [title |-> "unset", data |-> <<>>]

EmptyFig == [title |-> "No data loaded", data |-> <<>>]

----------------------------------------------------------------------------
(* SpecFetch: one call of fetch_cross_asset_data by any caller, a step per *)
(* external request.                                                       *)

Periods == {"180d", "1y", "5d"}

Intervals == {"1d", "1h"}

\* the calls made: every lookback with an intraday interval, and the
\* dashboard's default call
CallArgs == {<<p, "1h">> : p \in Periods} \cup {DATE_OPTIONS["1y"]}

NoRequest == [tickers |-> <<>>, period |-> "", interval |-> ""]

NoArgs == [period |-> "", interval |-> ""]

NoInputs == [n |-> 0 - 1, date_key |-> "", n_vol |-> 0, n_dd |-> 0, n_corr |-> 0]

NoResponse == [Open |-> NoFrame, Close |-> NoFrame]

InitFetch ==
    /\ pc = "call"
    /\ app = "lib"
    /\ n_intervals = 0
    /\ date_key = "1y"
    /\ n_vol = 0
    /\ n_dd = 0
    /\ n_corr = 0
    /\ last_clicked = "none"
    /\ inputs = NoInputs
    /\ args = NoArgs
    /\ yf_request = NoRequest
    /\ df_yahoo = NoResponse
    /\ fred_frames = <<>>
    /\ merged = NoFrame
    /\ df = NoFrame
    /\ calls = <<>>
    /\ risk_chart = NoFig
    /\ heatmap = NoFig
    /\ status = ""
    /\ metrics = {}

uiVars == <<app, n_intervals, date_key, n_vol, n_dd, n_corr, last_clicked, inputs, calls,
            risk_chart, heatmap, status, metrics>>

Call ==
    /\ pc = "call"
    /\ \E a \in CallArgs :
          /\ a[1] \in Periods /\ a[2] \in Intervals
          /\ args' = [period |-> a[1], interval |-> a[2]]
          /\ yf_request' = YfRequest(a[1], a[2])
    /\ pc' = "download"
    /\ UNCHANGED <<df_yahoo, fred_frames, merged, df, uiVars>>

YahooDownload ==
    /\ pc = "download"
    /\ \E resp \in YahooResponses : df_yahoo' = resp
    /\ pc' = "fred"
    /\ UNCHANGED <<args, yf_request, fred_frames, merged, df, uiVars>>

FredFetch ==
    /\ pc = "fred"
    /\ Len(fred_frames) < Len(FredKeys)
    /\ LET label == FredKeys[Len(fred_frames) + 1]
       IN  \E kind \in FredKinds :
              fred_frames' = Append(fred_frames,
                                    FredFrame(label, FredResponse(FRED_TICKERS[label], kind)))
    /\ pc' = IF Len(fred_frames) + 1 = Len(FredKeys) THEN "merge" ELSE "fred"
    /\ UNCHANGED <<args, yf_request, df_yahoo, merged, df, uiVars>>

Merge ==
    /\ pc = "merge"
    /\ \E sorts \in BOOLEAN : merged' = ConcatAll(fred_frames, CloseOf(df_yahoo), sorts)
    /\ df' = SortAndFill(merged')
    /\ pc' = "returned"
    /\ UNCHANGED <<args, yf_request, df_yahoo, fred_frames, uiVars>>

NextFetch == Call \/ YahooDownload \/ FredFetch \/ Merge

SpecFetch == InitFetch /\ [][NextFetch]_vars

----------------------------------------------------------------------------
(* app.py: the metrics of update_dashboard.  A return or a drawdown is the *)
(* exact fraction <<numerator, denominator>>; <<0, 0>> is NaN.             *)

Window == 30

NaNRet == <<0, 0>>

PctCell(prev, cur) == IF prev = NaN \/ cur = NaN THEN NaNRet ELSE <<cur - prev, prev>>

\* series.pct_change().dropna(): the first row, and every NaN row, is dropped
PctChange(col) ==
    LET raw == [i \in 1..Len(col) |->
                   IF i = 1 THEN NaNRet ELSE PctCell(col[i - 1], col[i])]
    IN  SelectSeq(raw, LAMBDA r : r # NaNRet)

FracLeq(a, b) == a[1] * b[2] <= b[1] * a[2]

FracEq(a, b) == a[1] * b[2] = b[1] * a[2]

GlobalMax(col, i) == Max(Range(col))

CumMax(col, i) == Max({col[j] : j \in 1..i})

Drawdowns(col) ==
    LET running_max == [i \in 1..Len(col) |-> CumMax(col, i)]
    IN  [i \in 1..Len(col) |-> <<col[i] - running_max[i], running_max[i]>>]

MaxDrawdown(col) ==
    LET dd == Drawdowns(col)
    IN  dd[CHOOSE i \in 1..Len(dd) : \A j \in 1..Len(dd) : FracLeq(dd[i], dd[j])]

VarIsZero(r, lo, hi) == \A i \in lo..hi : FracEq(r[i], r[lo])

RollingCorrAtAnyCount(x, y, i) ==
    LET lo == IF i >= Window THEN i - Window + 1 ELSE 1
    IN  IF VarIsZero(x, lo, i) \/ VarIsZero(y, lo, i) THEN "NaN" ELSE "num"

\* series.rolling(30).corr(other) at row i: "num" where the coefficient is defined.
\* min_periods defaults to the window; a window in which either series has
\* zero variance gives 0/0.
RollingCorrAt(x, y, i) ==
    LET lo == i - Window + 1
    IN  IF i < Window THEN "NaN"
        ELSE IF VarIsZero(x, lo, i) \/ VarIsZero(y, lo, i) THEN "NaN"
        ELSE "num"

RollingCorr(x, y) == [i \in 1..Len(x) |-> RollingCorrAt(x, y, i)]

Selected(v, d, c) ==
    IF v >= d /\ v >= c THEN "vol"
    ELSE IF d >= c THEN "dd"
    ELSE "corr"

VolChart(p) ==
    LET returns_crypto == [k \in 1..Len(cryptos) |-> PctChange(Col(p, cryptos[k]))]
    IN  [title |-> "Annualized Volatility (Crypto)",
         data  |-> [k \in 1..Len(cryptos) |->
                      <<cryptos[k], IF Len(returns_crypto[k]) >= 2 THEN "num" ELSE "NaN">>]]

DrawdownChart(p) ==
    LET df_crypto == Dropna(Select(p, cryptos))
    IN  [title |-> "Maximum Drawdown (Crypto)",
         data  |-> [k \in 1..Len(cryptos) |->
                      <<cryptos[k], MaxDrawdown(Col(df_crypto, cryptos[k]))>>]]

CorrChart(p) ==
    [title |-> "Rolling 30-Day Correlation vs Nasdaq",
     data  |-> IF HasCol(p, "Nasdaq")
               THEN LET nasdaq_ret == PctChange(Col(p, "Nasdaq"))
                    IN  [k \in 1..Len(cryptos) |->
                           <<cryptos[k],
                             RollingCorr(PctChange(Col(p, cryptos[k])), nasdaq_ret)>>]
               ELSE <<>>]

RiskChart(selected, p) ==
    CASE selected = "vol" -> VolChart(p)
      [] selected = "dd"  -> DrawdownChart(p)
      [] OTHER            -> CorrChart(p)

SelectedMetric(selected) ==
    CASE selected = "vol" -> "volatility"
      [] selected = "dd"  -> "drawdown"
      [] OTHER            -> "rolling_correlation"

NoData == [risk_chart |-> EmptyFig, heatmap |-> EmptyFig,
           status |-> "No data returned", metrics |-> {}]

\* app.py, update_dashboard from "df = fetch_cross_asset_data(...).dropna()" on
Render(selected, fetched) ==
    LET p == Dropna(fetched)
    IN  IF Empty(p) THEN [df |-> p] @@ NoData
        ELSE [df         |-> p,
              risk_chart |-> RiskChart(selected, p),
              heatmap    |-> [title |-> "Full Cross-Asset Correlation Matrix",
                              data  |-> p.columns],
              status     |-> "Last updated",
              metrics    |-> {"returns", SelectedMetric(selected), "correlation_matrix"}]

\* app_v3.py, update_dashboard from "df = fetch_cross_asset_data(...)" on
RenderV3(fetched) ==
    LET p == fetched
        shown == <<"3M_Yield", "10Y_Yield", "BTC", "ETH", "SOL", "XRP">>
        df_clean == Bfill(Ffill(p))
    IN  IF Empty(p) THEN [df |-> p] @@ NoData
        ELSE [df         |-> p,
              risk_chart |-> [title |-> "Normalized Cross-Asset Movement",
                              data  |-> SelectSeq(shown, LAMBDA c : HasCol(p, c))],
              heatmap    |-> [title |-> "Return Correlation Matrix",
                              data  |-> df_clean.columns],
              status     |-> "Last updated",
              metrics    |-> {"normalized", "returns", "correlation_matrix"}]

----------------------------------------------------------------------------
(* Spec: the dashboard.  A change of an Input (page load, timer tick,      *)
(* dropdown choice, button click) sets the property in the browser, which  *)
(* posts a request carrying the values of all the Inputs.  The server runs *)
(* update_dashboard for each request in a thread of its own, without a     *)
(* lock: a call waits in fetch_cross_asset_data while other events happen  *)
(* and other calls start and return.  The Outputs are those of the call    *)
(* that returned last.                                                     *)

DashCalendars == {{}, Dates}

DashKinds == {"none", "full", "latest"}

Inputs == [n |-> n_intervals, date_key |-> date_key,
           n_vol |-> n_vol, n_dd |-> n_dd, n_corr |-> n_corr]

Init ==
    /\ pc = "start"
    /\ app \in {"app", "app_v3"}
    /\ n_intervals = 0
    /\ date_key = "1y"
    /\ n_vol = 0
    /\ n_dd = 0
    /\ n_corr = 0
    /\ last_clicked = "none"
    /\ inputs = NoInputs
    /\ args = NoArgs
    /\ yf_request = NoRequest
    /\ df_yahoo = NoResponse
    /\ fred_frames = <<>>
    /\ merged = NoFrame
    /\ df = NoFrame
    /\ calls = <<>>
    /\ risk_chart = NoFig
    /\ heatmap = NoFig
    /\ status = ""
    /\ metrics = {}

\* what the two sources answer to one call, with the concatenation and the
\* panel fetch_cross_asset_data makes of it
DashScenarios ==
    {LET frames == [k \in 1..Len(FredKeys) |->
                      FredFrame(FredKeys[k],
                                FredResponse(FRED_TICKERS[FredKeys[k]], kind))]
         yresp  == YahooResponse(Y, Alphabetical)
         m      == ConcatAll(frames, CloseOf(yresp), sorts)
     IN  [df_yahoo |-> yresp, fred_frames |-> frames,
          merged |-> m, fetched |-> SortAndFill(m)] :
       Y \in DashCalendars, kind \in DashKinds, sorts \in BOOLEAN}

\* the figures update_dashboard makes of a scenario, per program and selection
Rendered ==
    [a \in {"app", "app_v3"}, selected \in {"vol", "dd", "corr"}, sc \in DashScenarios |->
        IF a = "app" THEN Render(selected, sc.fetched) ELSE RenderV3(sc.fetched)]

fetchVars == <<args, yf_request, df_yahoo, fred_frames, merged, df>>

outputVars == <<inputs, risk_chart, heatmap, status, metrics>>

\* the browser posts the request for a changed Input: a call of
\* update_dashboard(n, date_key, n_vol, n_dd, n_corr) is in flight
Dispatch(inp) ==
    /\ Len(calls) < MaxInFlight
    /\ calls' = Append(calls, inp)
    /\ UNCHANGED <<fetchVars, outputVars>>

PageLoad ==
    /\ pc = "start"
    /\ pc' = "ready"
    /\ Dispatch(Inputs)
    /\ UNCHANGED <<app, n_intervals, date_key, n_vol, n_dd, n_corr, last_clicked>>

Tick ==
    /\ pc = "ready"
    /\ n_intervals < MaxTicks
    /\ n_intervals' = n_intervals + 1
    /\ Dispatch([Inputs EXCEPT !.n = n_intervals + 1])
    /\ UNCHANGED <<pc, app, date_key, n_vol, n_dd, n_corr, last_clicked>>

SelectDate ==
    /\ pc = "ready"
    /\ \E k \in DOMAIN DATE_OPTIONS :
          /\ k # date_key
          /\ date_key' = k
          /\ Dispatch([Inputs EXCEPT !.date_key = k])
    /\ UNCHANGED <<pc, app, n_intervals, n_vol, n_dd, n_corr, last_clicked>>

ClickVol ==
    /\ pc = "ready"
    /\ app = "app"
    /\ n_vol < MaxClicks
    /\ n_vol' = n_vol + 1
    /\ last_clicked' = "vol"
    /\ Dispatch([Inputs EXCEPT !.n_vol = n_vol + 1])
    /\ UNCHANGED <<pc, app, n_intervals, date_key, n_dd, n_corr>>

ClickDD ==
    /\ pc = "ready"
    /\ app = "app"
    /\ n_dd < MaxClicks
    /\ n_dd' = n_dd + 1
    /\ last_clicked' = "dd"
    /\ Dispatch([Inputs EXCEPT !.n_dd = n_dd + 1])
    /\ UNCHANGED <<pc, app, n_intervals, date_key, n_vol, n_corr>>

ClickCorr ==
    /\ pc = "ready"
    /\ app = "app"
    /\ n_corr < MaxClicks
    /\ n_corr' = n_corr + 1
    /\ last_clicked' = "corr"
    /\ Dispatch([Inputs EXCEPT !.n_corr = n_corr + 1])
    /\ UNCHANGED <<pc, app, n_intervals, date_key, n_vol, n_dd>>

browserVars == <<pc, app, n_intervals, date_key, n_vol, n_dd, n_corr, last_clicked>>

Remove(s, i) == SubSeq(s, 1, i - 1) \o SubSeq(s, i + 1, Len(s))

\* a call in flight, any of them, gets the answer of the fetch_cross_asset_data
\* it waited in, computes its figures from the Input values it was called
\* with and returns them to the Outputs
update_dashboard ==
    /\ \E i \in 1..Len(calls), sc \in DashScenarios :
          LET inp      == calls[i]
              k        == IF inp.date_key = "None" THEN "1y" ELSE inp.date_key
              period   == DATE_OPTIONS[k][1]
              interval == DATE_OPTIONS[k][2]
              out      == Rendered[app, Selected(inp.n_vol, inp.n_dd, inp.n_corr), sc]
          IN  /\ calls' = Remove(calls, i)
              /\ inputs' = inp
              /\ args' = [period |-> period, interval |-> interval]
              /\ yf_request' = YfRequest(period, interval)
              /\ df_yahoo' = sc.df_yahoo
              /\ fred_frames' = sc.fred_frames
              /\ merged' = sc.merged
              /\ df' = out.df
              /\ risk_chart' = out.risk_chart
              /\ heatmap' = out.heatmap
              /\ status' = out.status
              /\ metrics' = out.metrics
    /\ UNCHANGED browserVars

Next ==
    \/ PageLoad
    \/ Tick
    \/ SelectDate
    \/ ClickVol
    \/ ClickDD
    \/ ClickCorr
    \/ update_dashboard

Spec == Init /\ [][Next]_vars

----------------------------------------------------------------------------
(* SpecMetrics: the metrics of app.py's update_dashboard on bounded panels *)
(* of positive prices: df is the panel after the fetch and dropna.         *)

AllColumns == FredKeys \o YahooKeys

\* the panel of `rows` dates whose column `label` is the sequence price[label]
Panel(rows, price) ==
    [index   |-> [i \in 1..rows |-> i],
     columns |-> AllColumns,
     values  |-> [j \in 1..Len(AllColumns) |-> price[AllColumns[j]]]]

PriceSet == {99, 100, 105, 110}

PriceSeqs == UNION {[1..n -> PriceSet] : n \in 1..MaxLen}

DrawdownPanel(s) ==
    LET n == Len(s)
        price == [label \in Range(AllColumns) |-> [i \in 1..n |->
                    CASE label = "BTC" -> s[i]
                      [] label = "ETH" -> s[n + 1 - i]
                      [] label = "SOL" -> s[(i % n) + 1]
                      [] label = "XRP" -> s[1]
                      [] OTHER         -> 1]]
    IN  Panel(n, price)

\* a price that rises by one a row up to row k and is stale (carried) after it
StalePrice(i, k) == 100 + Min({i, k})

RowChoices == (MaxRows - 3)..MaxRows

StaleChoices(rows) == {1, 2, rows}

RollingPanel(rows, kN, kB, kE) ==
    LET price == [label \in Range(AllColumns) |-> [i \in 1..rows |->
                    CASE label = "Nasdaq" -> StalePrice(i, kN)
                      [] label = "BTC"    -> StalePrice(i, kB)
                      [] label = "ETH"    -> StalePrice(i, kE)
                      [] label = "SOL"    -> StalePrice(i, rows)
                      [] label = "XRP"    -> StalePrice(i, 1)
                      [] OTHER            -> 1]]
    IN  Panel(rows, price)

MetricPanels ==
    {DrawdownPanel(s) : s \in PriceSeqs}
    \cup UNION {{RollingPanel(rows, kN, kB, kE) :
                    kN \in StaleChoices(rows), kB \in StaleChoices(rows),
                    kE \in StaleChoices(rows)} : rows \in RowChoices}

InitMetrics ==
    /\ pc = "metrics"
    /\ app = "app"
    /\ n_intervals = 0
    /\ date_key = "1y"
    /\ n_vol \in 0..1
    /\ n_dd \in 0..1
    /\ n_corr \in 0..1
    /\ n_vol + n_dd + n_corr = 1
    /\ last_clicked = Selected(n_vol, n_dd, n_corr)
    /\ inputs = NoInputs
    /\ args = NoArgs
    /\ yf_request = NoRequest
    /\ df_yahoo = NoResponse
    /\ fred_frames = <<>>
    /\ merged = NoFrame
    /\ df \in MetricPanels
    /\ calls = <<>>
    /\ risk_chart = NoFig
    /\ heatmap = NoFig
    /\ status = ""
    /\ metrics = {}

RenderMetrics ==
    /\ pc = "metrics"
    /\ pc' = "ready"
    /\ LET out == Render(Selected(n_vol, n_dd, n_corr), df)
       IN  /\ inputs' = Inputs
           /\ df' = out.df
           /\ risk_chart' = out.risk_chart
           /\ heatmap' = out.heatmap
           /\ status' = out.status
           /\ metrics' = out.metrics
    /\ UNCHANGED <<app, n_intervals, date_key, n_vol, n_dd, n_corr, last_clicked,
                   args, yf_request, df_yahoo, fred_frames, merged, calls>>

NextMetrics == RenderMetrics

SpecMetrics == InitMetrics /\ [][NextMetrics]_vars

----------------------------------------------------------------------------
(* Properties of fetch_cross_asset_data (SpecFetch) *)

\* the panel as concatenated and sorted, before the fill step
PreFill == SortIndex(merged)

Observed(col) == \E i \in 1..Len(col) : col[i] # NaN

\* C1: in the returned panel the column named L holds, at every date the
\* market-data source answered, the closing price the source returned for the
\* identifier YAHOO_TICKERS[L], whatever order the source's columns come in.
C1_ColumnsHoldCatalogSeries ==
    pc = "returned" =>
        \A L \in Range(YahooKeys) :
            LET src == Col(df_yahoo.Close, YAHOO_TICKERS[L])
            IN  \A i \in 1..NRows(df_yahoo.Close) :
                    src[i] # NaN =>
                        Col(df, L)[Pos(df.index, df_yahoo.Close.index[i])] = src[i]

\* C2: a market-data fetch with zero rows makes fetch_cross_asset_data return
\* a panel with zero rows, even when the macro-series fetches return rows.
C2_EmptyMarketGivesEmptyPanel ==
    (pc = "returned" /\ NRows(df_yahoo.Close) = 0) => NRows(df) = 0

\* C4: every non-empty panel returned has a strictly increasing date index
\* (hence no duplicate dates).
C4_IndexStrictlyIncreasing ==
    (pc = "returned" /\ NRows(df) > 0) =>
        \A i \in 1..(NRows(df) - 1) : df.index[i] < df.index[i + 1]

\* C4 witness: a returned panel over all dates whose concatenation came out of
\* date order (a pandas that keeps the order of first appearance, a macro
\* series that answered its latest date only), so that sort_index had to
\* reorder it.
C4_Witness ==
    /\ pc = "returned"
    /\ NRows(df) = MaxDate
    /\ merged.index # df.index
    /\ \E i \in 1..(MaxDate - 1) : merged.index[i] > merged.index[i + 1]

\* C5: after the fill step every column with at least one observed value has
\* a value at every date of the panel.
C5_FilledColumnsHaveNoGaps ==
    pc = "returned" =>
        LET before == PreFill
        IN  \A j \in 1..NCols(df) :
                Observed(before.values[j]) =>
                    \A i \in 1..NRows(df) : df.values[j][i] # NaN

\* C5 witness: a returned panel whose columns, before the fill, had a gap
\* before the first, between two, and after the last observed value.
C5_Witness ==
    /\ pc = "returned"
    /\ NRows(df) >= 3
    /\ \E j \in 1..NCols(df) :
          LET c == PreFill.values[j] IN c[1] = NaN /\ c[NRows(df)] # NaN
    /\ \E j \in 1..NCols(df) :
          LET c == PreFill.values[j] IN c[1] # NaN /\ c[2] = NaN /\ c[3] # NaN
    /\ \E j \in 1..NCols(df) :
          LET c == PreFill.values[j] IN c[1] # NaN /\ c[NRows(df)] = NaN
    /\ \A j \in 1..NCols(df) : \A i \in 1..NRows(df) : df.values[j][i] # NaN

\* C8: forward-fill then backward-fill of the already filled panel gives the
\* same panel, all-missing columns included.
C8_FillIsIdempotent ==
    pc = "returned" => Bfill(Ffill(df)) = df

\* C8 witness: a returned panel with an all-missing column and a column in
\* which the first fill replaced two trailing missing cells.
C8_Witness ==
    /\ pc = "returned"
    /\ NRows(df) >= 3
    /\ \E j \in 1..NCols(df) : ~Observed(df.values[j])
    /\ \E j \in 1..NCols(df) :
          LET c == PreFill.values[j]
          IN  /\ c[1] # NaN /\ c[2] = NaN /\ c[3] = NaN
              /\ df.values[j][2] = c[1] /\ df.values[j][3] = c[1]

\* C9: for the lookbacks of DATE_OPTIONS ("180d", "1y") the market data is
\* requested with interval "1d", whatever interval the caller passed.
C9_ShortLookbackForcesDaily ==
    (pc # "call" /\ args.period \in DOMAIN DATE_OPTIONS) =>
        /\ yf_request.interval = "1d"
        /\ yf_request.period = args.period

\* C9 witness: a caller passed "1h" with lookback "180d" and the request in
\* flight asks for "1d".
C9_Witness ==
    /\ pc = "download"
    /\ args = [period |-> "180d", interval |-> "1h"]
    /\ yf_request.interval = "1d"

----------------------------------------------------------------------------
(* Properties of the dashboard (Spec) *)

\* C3: a refresh whose market-data fetch result is empty ends in the display
\* state "No data returned", both figures the empty 'No data loaded' figure,
\* and computes no metric.
C3_EmptyMarketShowsNoData ==
    (inputs # NoInputs /\ NRows(df_yahoo.Close) = 0) =>
        /\ status = "No data returned"
        /\ risk_chart.title = EmptyFig.title
        /\ heatmap.title = EmptyFig.title
        /\ metrics = {}

ViewTitle(button) ==
    RiskChart(button, Panel(1, [label \in Range(AllColumns) |-> <<1>>])).title

\* C10: after any sequence of clicks, ticks and date changes the risk chart
\* update_dashboard produces for the current Input values (the call for the
\* latest event has returned last) is the view of the button clicked most
\* recently.
C10_LastClickedWins ==
    (app = "app" /\ inputs = Inputs /\ last_clicked # "none" /\ ~Empty(df)) =>
        risk_chart.title = ViewTitle(last_clicked)

----------------------------------------------------------------------------
(* Properties of the metrics (SpecMetrics) *)

NonDecreasing(col) == \A i \in 1..(Len(col) - 1) : col[i] <= col[i + 1]

ShowsDrawdown == pc = "ready" /\ risk_chart.title = ViewTitle("dd")

ShowsCorr == pc = "ready" /\ risk_chart.title = ViewTitle("corr")

\* C6: for every instrument of a non-empty panel of positive prices the
\* maximum drawdown lies in (-1, 0], is 0 exactly when the prices never
\* decrease, and is -0.10 for prices [100, 110, 99, 105].
C6_MaxDrawdownInRange ==
    ShowsDrawdown =>
        \A k \in 1..Len(cryptos) :
            LET col == Col(df, cryptos[k])
                m   == risk_chart.data[k][2]
            IN  /\ m[2] > 0
                /\ m[1] <= 0
                /\ m[1] > 0 - m[2]
                /\ (m[1] = 0) <=> NonDecreasing(col)
                /\ (col = <<100, 110, 99, 105>>) => (10 * m[1] = 0 - m[2])

\* C6 witness: the drawdown view of a panel whose BTC prices are
\* [100, 110, 99, 105], with maximum drawdown -11/110.
C6_Witness ==
    /\ ShowsDrawdown
    /\ Col(df, "BTC") = <<100, 110, 99, 105>>
    /\ risk_chart.data[1] = <<"BTC", <<0 - 11, 110>>>>
    /\ risk_chart.data[4] = <<"XRP", <<0, 100>>>>

Defined(trace) == {i \in 1..Len(trace) : trace[i] = "num"}

ReturnRows == NRows(df) - 1

\* C7 as claimed: with N return rows each rolling correlation series has
\* exactly N - 29 defined values when N >= 30 and none when N < 30.
C7_ExactlyNMinus29Defined ==
    ShowsCorr =>
        \A k \in 1..Len(cryptos) :
            LET trace == risk_chart.data[k][2]
            IN  /\ Len(trace) = ReturnRows
                /\ ReturnRows >= Window =>
                      Cardinality(Defined(trace)) = ReturnRows - (Window - 1)
                /\ ReturnRows < Window => Defined(trace) = {}

\* C7 as amended: the first 29 points are absent, so at most N - 29 values
\* are defined (none when N < 30); a later point is defined exactly when both
\* return series vary within its 30-observation window, so the count is
\* N - 29 when no window is constant.
C7_AtMostNMinus29Defined ==
    ShowsCorr =>
        \A k \in 1..Len(cryptos) :
            LET trace == risk_chart.data[k][2]
                x     == PctChange(Col(df, cryptos[k]))
                y     == PctChange(Col(df, "Nasdaq"))
                varies(i) == /\ \E a \in (i - Window + 1)..i : ~FracEq(x[a], x[i])
                             /\ \E a \in (i - Window + 1)..i : ~FracEq(y[a], y[i])
            IN  /\ Len(trace) = ReturnRows
                /\ \A i \in 1..Len(trace) : i < Window => trace[i] = "NaN"
                /\ ReturnRows >= Window =>
                      Cardinality(Defined(trace)) <= ReturnRows - (Window - 1)
                /\ ReturnRows < Window => Defined(trace) = {}
                /\ \A i \in Window..Len(trace) : (trace[i] = "num") <=> varies(i)
                /\ (ReturnRows >= Window /\ \A i \in Window..Len(trace) : varies(i)) =>
                      Cardinality(Defined(trace)) = ReturnRows - (Window - 1)

\* C7 witness: the correlation view of a panel with more than 30 return rows
\* in which one series has all N - 29 values and another, stale against
\* Nasdaq over a whole window, has fewer.
C7_Witness ==
    /\ ShowsCorr
    /\ ReturnRows > Window
    /\ \E k \in 1..Len(cryptos) :
          Cardinality(Defined(risk_chart.data[k][2])) = ReturnRows - (Window - 1)
    /\ \E k \in 1..Len(cryptos) :
          Cardinality(Defined(risk_chart.data[k][2])) < ReturnRows - (Window - 1)

====
